---- MODULE Spec2Model ----
(***************************************************************************)
(* Model of elfinpy/dbgen.py: XDBGenerator builds the transform database   *)
(* from standalone ("single"), fused-pair ("double") and connector ("hub") *)
(* structure files.  Coordinates, rotations and translations are not       *)
(* modelled; a structure is its list of chains with their residue counts,  *)
(* its at_origin tag and the frame its coordinates are in, and an edge is  *)
(* its four endpoint fields.                                               *)
(***************************************************************************)
EXTENDS Integers, Sequences, FiniteSets, TLC

\* ---------------------------------------------------------------- bounds
\* Residue count of every standalone chain and connector chain; a pair file
\* holds either both parents' residues or, truncated, only one parent's.
ResLen == 2
\* Largest number of pair files in one run.
MaxDoubles == 2
\* Largest residue count of a chain when the fits are run on their own.
MaxRes == 9
\* Largest residue count of a chain handed to find_tip on its own.
MaxTipRes == 13

\* ------------------------------------------------------- input alphabets
\* The two termini of a chain.
Sides == {"n", "c"}
SingleNames == {"a", "b"}
HubNames == {"h", "a"}
\* Chain ids in the order a structure file letters its chains.
Letters == <<"A", "B">>
ChainIds == {Letters[i] : i \in DOMAIN Letters}
PairNames == SingleNames \X SingleNames

\* The chain lists a parser returns: at least one chain, lettered in order,
\* each with its id and the length of its child_list, taken from lens.
ChainLists(lens) ==
  {cs \in UNION {[1..k -> [id : ChainIds, n : lens]] : k \in 1..Len(Letters)} :
     \A i \in DOMAIN cs : cs[i].id = Letters[i]}

SingleFiles == ChainLists({ResLen})
DoubleFiles == ChainLists({ResLen, 2 * ResLen})
HubFiles == ChainLists({ResLen})

\* read_pdb: a freshly parsed structure carries no at_origin tag and has the
\* coordinates of its file.
read_pdb(cs) == [is_struct |-> TRUE, chains |-> cs, at_origin |-> FALSE, frame |-> "file"]

\* The empty dict a defaultdict(dict) creates for a key that is looked up
\* before it was written.
EmptyDict == [is_struct |-> FALSE, chains |-> <<>>, at_origin |-> FALSE, frame |-> "none"]

\* ------------------------------------------------------------ dictionaries
Put(f, k, v) == (k :> v) @@ f
NoMap == [x \in {} |-> 0]

\* ------------------------------------------------------- pdb_utilities.py
RECURSIVE SumRes(_, _)
SumRes(cs, i) == IF i > Len(cs) THEN 0 ELSE cs[i].n + SumRes(cs, i + 1)

get_pdb_residue_count(pdb) == SumRes(pdb.chains, 1)

HasChain(struct, chain_id) == \E i \in DOMAIN struct.chains : struct.chains[i].id = chain_id

get_chain(struct, chain_id) ==
  struct.chains[CHOOSE i \in DOMAIN struct.chains : struct.chains[i].id = chain_id]

get_chain_residue_count(struct, chain_id) == get_chain(struct, chain_id).n

first_chain_id(struct) == struct.chains[1].id

\* --------------------------------------------------------------- helpers
int_ceil_div(r, f) == (r + f - 1) \div f
int_floor_div(r, f) == r \div f

\* Length of the Python slice child_list[start:stop] of a list of length n.
SliceIdx(n, i) == IF i < 0 THEN (IF n + i < 0 THEN 0 ELSE n + i) ELSE (IF i > n THEN n ELSE i)
SliceLen(n, start, stop) ==
  LET s == SliceIdx(n, start)
      e == SliceIdx(n, stop)
  IN IF e > s THEN e - s ELSE 0

\* Variant of move_to_origin that translates but does not tag.
move_to_origin_untagged(pdb) == [pdb EXCEPT !.frame = "origin"]

\* move_to_origin: translate by -com and tag the structure.
move_to_origin(pdb) == [pdb EXCEPT !.at_origin = TRUE, !.frame = "origin"]

\* Variant of align that transforms the fixed structure as well.
align_both(moving, fixed) ==
  [moving |-> [moving EXCEPT !.frame = "aligned"],
   fixed |-> [fixed EXCEPT !.frame = "aligned"]]

\* align: moving.transform(rot, tran); the fixed structure is only read.
\* Both objects as the call leaves them.
align(moving, fixed) ==
  [moving |-> [moving EXCEPT !.frame = "aligned"], fixed |-> fixed]

\* get_rot_trans: "ok" when the superimposer returns a rotation/translation,
\* otherwise the exception raised.  The superimposer rejects atom lists of
\* different sizes; what it does with two empty lists is left to the
\* library, hence the parameter empty_ok.
get_rot_trans(moving, moving_chain_id, fixed, fixed_chain_id, moving_resi_offset, fixed_resi_offset, match_count, empty_ok) ==
  IF ~HasChain(moving, moving_chain_id) \/ ~HasChain(fixed, fixed_chain_id)
  THEN "KeyError"
  ELSE LET ma == SliceLen(get_chain(moving, moving_chain_id).n,
                          moving_resi_offset, moving_resi_offset + match_count)
           fa == SliceLen(get_chain(fixed, fixed_chain_id).n,
                          fixed_resi_offset, fixed_resi_offset + match_count)
       IN IF fa # ma THEN "PDBException"
          ELSE IF fa = 0 /\ ~empty_ok THEN "ZeroDivisionError"
          ELSE "ok"

\* One call of get_rot_trans: its keyword arguments.
fit_call(moving, moving_chain_id, fixed, fixed_chain_id, moving_resi_offset, fixed_resi_offset, match_count) ==
  [moving |-> moving, moving_chain_id |-> moving_chain_id,
   fixed |-> fixed, fixed_chain_id |-> fixed_chain_id,
   moving_resi_offset |-> moving_resi_offset, fixed_resi_offset |-> fixed_resi_offset,
   match_count |-> match_count]

fit_result(call, empty_ok) ==
  get_rot_trans(call.moving, call.moving_chain_id, call.fixed, call.fixed_chain_id,
                call.moving_resi_offset, call.fixed_resi_offset, call.match_count, empty_ok)

\* fusion_count = int_ceil(float(R) / F).
fusion_count(r, f) == int_ceil_div(r, f)

\* Variant of create_tx that stores the endpoints the other way round.
create_tx_swapped(mod_a, a_chain, mod_b, b_chain) ==
  [mod_a |-> mod_b, mod_a_chain |-> b_chain, mod_b |-> mod_a, mod_b_chain |-> a_chain]

\* Variant of create_tx that stores the first endpoint twice.
create_tx_a_twice(mod_a, a_chain, mod_b, b_chain) ==
  [mod_a |-> mod_a, mod_a_chain |-> a_chain, mod_b |-> mod_a, mod_b_chain |-> a_chain]

\* create_tx (rot and tran are not modelled).
create_tx(mod_a, a_chain, mod_b, b_chain) ==
  [mod_a |-> mod_a, mod_a_chain |-> a_chain, mod_b |-> mod_b, mod_b_chain |-> b_chain]

\* ------------------------------------------------------------------ state
VARIABLES
  pc,            \* position of run(): "singles", "doubles", "hubs", "done", "failed"
  err,           \* the exception that ended the run, "none" while there is none
  single_files,  \* names listed by the three globs of run()
  double_files,
  hub_files,
  started,       \* <<kind, name>> of every file handed to a process_* call
  finished,      \* <<kind, name>> of every file whose process_* call returned
  hub_info,      \* the entries of the metadata map that process_hub has looked up
  modules,       \* [singles |-> name -> entry, hubs |-> name -> entry]
  n_to_c_tx,     \* pair-derived edges (and, after run() line 652, all edges)
  hub_tx,        \* connector-derived edges
  single_pdbs,   \* cache of standalone structures
  double_pdbs,   \* cache of aligned pair structures, keyed <<a, b>>
  aligned,       \* <<kind, name>> of every structure written by save_pdb
  xdb,           \* content of out_file; written = FALSE until dump_xdb
  issued,        \* every tx_id handed out, in order, with its edge and its list
  current,       \* the file of the latest process_* call and its structure as
                 \* that call left it
  calc           \* the latest fit sequence or find_tip call run on its own: its
                 \* inputs and what it did

vars == <<pc, err, single_files, double_files, hub_files, started, finished,
          hub_info, modules, n_to_c_tx, hub_tx, single_pdbs, double_pdbs,
          aligned, xdb, issued, current, calc>>

\* ------------------------------------------------------ connector metadata
\* One entry of component_data: the arm's chain id, its component standalone
\* and its free termini.  component_data is an ordered JSON object, so a
\* record of hub_info holds the arms in file order.
Arms == [chain : ChainIds, single_name : SingleNames, c_free : BOOLEAN, n_free : BOOLEAN]

\* The metadata records drawn: the arms of a connector are lettered in order
\* and have the same termini free; their components may differ.
ComponentData ==
  {cd \in UNION {[1..k -> Arms] : k \in 0..Len(Letters)} :
     /\ \A i \in DOMAIN cd : cd[i].chain = Letters[i]
     /\ \A i, j \in DOMAIN cd : /\ cd[i].c_free = cd[j].c_free
                                /\ cd[i].n_free = cd[j].n_free}

\* hub_info.get(name, None): present = FALSE stands for None.
\* has_component_data turns FALSE at "del hub_meta['component_data']".
NoMeta == [present |-> FALSE, has_component_data |-> FALSE, component_data |-> <<>>]
HubMetas ==
  {NoMeta} \cup {[present |-> TRUE, has_component_data |-> TRUE, component_data |-> cd] :
                   cd \in ComponentData}

HasArm(cd, chain_id) == \E i \in DOMAIN cd : cd[i].chain = chain_id
ArmOf(cd, chain_id) == cd[CHOOSE i \in DOMAIN cd : cd[i].chain = chain_id]

\* ----------------------------------------------------------- construction
NoCalc == [op |-> "none"]

Init ==
  /\ pc = "singles"
  /\ err = "none"
  /\ single_files \in SUBSET SingleNames
  /\ double_files = {}
  /\ hub_files = {}
  /\ started = {}
  /\ finished = {}
  /\ hub_info = NoMap
  /\ modules = [singles |-> NoMap, hubs |-> NoMap]
  /\ n_to_c_tx = <<>>
  /\ hub_tx = <<>>
  /\ single_pdbs = NoMap
  /\ double_pdbs = NoMap
  /\ aligned = {}
  /\ xdb = [written |-> FALSE, modules |-> [singles |-> NoMap, hubs |-> NoMap], n_to_c_tx |-> <<>>]
  /\ issued = <<>>
  /\ current = [kind |-> "none", name |-> "", struct |-> EmptyDict]
  /\ calc = NoCalc

\* The files of one stage that run() has not yet reached.
Todo(kind, files) == {f \in files : <<kind, f>> \notin started}

\* Variant of loop_done that leaves a loop before its last file.
loop_done_early(kind, files) == TRUE

\* End of one of the three "for i in range(...)" loops of run().
loop_done(kind, files) == Todo(kind, files) = {}

\* An exception leaves run(); nothing after the failing call is executed.
Abort(e) ==
  /\ pc' = "failed"
  /\ err' = e

\* --------------------------------------------------------- process_single
\* Variant of single_error without the chain-count assertion.
single_error_unchecked(single) == "none"

\* Result of process_single on a parsed structure: the exception raised, or
\* "none" with the centred structure.
single_error(single) == IF Len(single.chains) # 1 THEN "AssertionError" ELSE "none"

single_entry(single) ==
  [chains |-> (single.chains[1].id :>
                 [n |-> NoMap, c |-> NoMap, n_residues |-> single.chains[1].n]),
   radii |-> "radii"]

\* get_radii refuses a structure that is not tagged at_origin.
get_radii_error(pose) == IF ~pose.at_origin THEN "ValueError" ELSE "none"

ProcessSingle ==
  /\ pc = "singles"
  /\ \E single_name \in Todo("singles", single_files), cs \in SingleFiles :
       LET loaded == read_pdb(cs)
           single == move_to_origin(loaded)
       IN /\ started' = started \cup {<<"singles", single_name>>}
          /\ current' = [kind |-> "singles", name |-> <<single_name>>,
                         struct |-> IF single_error(loaded) # "none" THEN loaded ELSE single]
          /\ IF single_error(loaded) # "none"
             THEN /\ Abort(single_error(loaded))
                  /\ UNCHANGED <<finished, modules, single_pdbs, aligned>>
             ELSE IF get_radii_error(single) # "none"
             THEN /\ Abort(get_radii_error(single))
                  /\ aligned' = aligned \cup {<<"singles", single_name>>}
                  /\ UNCHANGED <<finished, modules, single_pdbs>>
             ELSE /\ aligned' = aligned \cup {<<"singles", single_name>>}
                  /\ modules' = [modules EXCEPT
                                   !.singles = Put(@, single_name, single_entry(single))]
                  /\ single_pdbs' = Put(single_pdbs, single_name, single)
                  /\ finished' = finished \cup {<<"singles", single_name>>}
                  /\ UNCHANGED <<pc, err>>
  /\ UNCHANGED <<single_files, double_files, hub_files, hub_info, n_to_c_tx, hub_tx,
                 double_pdbs, xdb, issued, calc>>

\* --------------------------------------------------------- process_double
\* self.single_pdbs[name] on a defaultdict(dict): a missing key is created
\* with an empty dict.
lookup_single(cache, name) == IF name \in DOMAIN cache THEN cache ELSE Put(cache, name, EmptyDict)

dbl_fusion_factor == 8

\* rc_a_half - fusion_count_a (lines 314, 319, 326-327).
double_offset_a(rc_a) == int_floor_div(rc_a, 2) - fusion_count(rc_a, dbl_fusion_factor)

\* rc_b_half - fusion_count_b (lines 315, 320, 335).
double_offset_b(rc_b) == int_ceil_div(rc_b, 2) - fusion_count(rc_b, dbl_fusion_factor)

\* The three fits of process_double, in call order (align, get_centre_of_mass,
\* get_rot_trans), all on the default chain id 'A'.
double_calls(double, single_a, single_b) ==
  LET rc_a == get_pdb_residue_count(single_a)
      rc_b == get_pdb_residue_count(single_b)
      fusion_count_a == fusion_count(rc_a, dbl_fusion_factor)
      fusion_count_b == fusion_count(rc_b, dbl_fusion_factor)
  IN <<fit_call(double, "A", single_a, "A",
                double_offset_a(rc_a), double_offset_a(rc_a), fusion_count_a),
       fit_call(single_b, "A", double, "A",
                double_offset_b(rc_b), rc_a + double_offset_b(rc_b), fusion_count_b),
       fit_call(double, "A", single_b, "A",
                rc_a + double_offset_b(rc_b), double_offset_b(rc_b), fusion_count_b)>>

\* The first exception of the three fits; "none" when all three return.
double_fit_error(double, single_a, single_b, empty_ok) ==
  LET calls == double_calls(double, single_a, single_b)
      step2 == fit_result(calls[1], empty_ok)
      step3 == fit_result(calls[2], empty_ok)
      step4 == fit_result(calls[3], empty_ok)
  IN IF step2 # "ok" THEN step2
     ELSE IF step3 # "ok" THEN step3
     ELSE IF step4 # "ok" THEN step4
     ELSE "none"

\* The exception process_double raises before it records anything.
double_error(double, cache, single_a_name, single_b_name, empty_ok) ==
  IF Len(double.chains) # 1 THEN "AssertionError"
  ELSE IF ~cache[single_a_name].is_struct \/ ~cache[single_b_name].is_struct
  THEN "AttributeError"
  ELSE double_fit_error(double, cache[single_a_name], cache[single_b_name], empty_ok)

\* Variant of double_tx_id that counts from one.
double_tx_id_from_one(pair_edges, connector_edges) == Len(pair_edges) + 1

\* tx_id of process_double, line 390.
double_tx_id(pair_edges, connector_edges) == Len(pair_edges)

\* Variant of set_neighbor that stores the list length after the append.
set_neighbor_after_append(mods, kind, name, chain, side, other, other_chain, tx_id) ==
  [mods EXCEPT ![kind][name].chains[chain][side] = Put(@, <<other, other_chain>>, tx_id + 1)]

\* modules[kind][name]['chains'][chain][side][other][other_chain] = tx_id
set_neighbor(mods, kind, name, chain, side, other, other_chain, tx_id) ==
  [mods EXCEPT ![kind][name].chains[chain][side] = Put(@, <<other, other_chain>>, tx_id)]

\* Variant of double_neighbors that writes B's entry on the c side too.
double_neighbors_c_only(mods, tx, tx_id) ==
  set_neighbor(
    set_neighbor(mods, "singles", tx.mod_a, tx.mod_a_chain, "c", tx.mod_b, tx.mod_b_chain, tx_id),
    "singles", tx.mod_b, tx.mod_b_chain, "c", tx.mod_a, tx.mod_a_chain, tx_id)

\* Lines 392-395: the id goes into A's c-side map and B's n-side map.
double_neighbors(mods, tx, tx_id) ==
  set_neighbor(
    set_neighbor(mods, "singles", tx.mod_a, tx.mod_a_chain, "c", tx.mod_b, tx.mod_b_chain, tx_id),
    "singles", tx.mod_b, tx.mod_b_chain, "n", tx.mod_a, tx.mod_a_chain, tx_id)

ProcessDouble ==
  /\ pc = "doubles"
  /\ \E double_name \in Todo("doubles", double_files),
        cs \in DoubleFiles, empty_ok \in BOOLEAN :
       LET double == read_pdb(cs)
           single_a_name == double_name[1]
           single_b_name == double_name[2]
           one_chain == Len(double.chains) = 1
           cache == IF one_chain
                    THEN lookup_single(lookup_single(single_pdbs, single_a_name), single_b_name)
                    ELSE single_pdbs
           e == double_error(double, cache, single_a_name, single_b_name, empty_ok)
           single_a_chain_id == first_chain_id(cache[single_a_name])
           single_b_chain_id == first_chain_id(cache[single_b_name])
           tx == create_tx(single_a_name, single_a_chain_id, single_b_name, single_b_chain_id)
           tx_id == double_tx_id(n_to_c_tx, hub_tx)
           al == align(double, cache[single_a_name])
       IN /\ started' = started \cup {<<"doubles", double_name>>}
          /\ current' = [kind |-> "doubles", name |-> double_name,
                         struct |-> IF e # "none" THEN double ELSE al.moving]
          /\ IF e # "none"
             THEN /\ Abort(e)
                  /\ single_pdbs' = cache
                  /\ UNCHANGED <<finished, modules, n_to_c_tx, double_pdbs, aligned, issued>>
             ELSE /\ single_pdbs' = Put(cache, single_a_name, al.fixed)
                  /\ aligned' = aligned \cup {<<"doubles", double_name>>}
                  /\ modules' = double_neighbors(modules, tx, tx_id)
                  /\ n_to_c_tx' = Append(n_to_c_tx, tx)
                  /\ issued' = Append(issued, [id |-> tx_id, tx |-> tx, list |-> "n_to_c_tx"])
                  /\ double_pdbs' = Put(double_pdbs, double_name, al.moving)
                  /\ finished' = finished \cup {<<"doubles", double_name>>}
                  /\ UNCHANGED <<pc, err>>
  /\ UNCHANGED <<single_files, double_files, hub_files, hub_info, hub_tx, xdb, calc>>

\* ------------------------------------------------------------ process_hub
hub_fusion_factor == 4

\* Variant of hub_tx_id that forgets the pair edges.
hub_tx_id_local(pair_edges, connector_edges) == Len(connector_edges)

\* tx_id of process_hub, lines 211 and 273.
hub_tx_id(pair_edges, connector_edges) == Len(pair_edges) + Len(connector_edges)

\* hub_meta['chains'] (lines 123-132): one entry per chain of the structure.
hub_chain_entries(hub, comp_data) ==
  [chain_id \in {hub.chains[i].id : i \in DOMAIN hub.chains} |->
     [single_name |-> ArmOf(comp_data, chain_id).single_name,
      n |-> NoMap, n_tip |-> "empty",
      c |-> NoMap, c_tip |-> "empty",
      n_residues |-> get_chain_residue_count(hub, chain_id)]]

\* Variant of find_tip_error that asserts a full window of residues.
find_tip_error_strict(struct, chain_id) ==
  IF get_chain_residue_count(struct, chain_id) > 6 THEN "none" ELSE "AssertionError"

\* find_tip asserts that the chain has residues.
find_tip_error(struct, chain_id) ==
  IF get_chain_residue_count(struct, chain_id) > 0 THEN "none" ELSE "AssertionError"

\* Variant of is_match in which the n_free generator yields nothing.
is_match_c_only(side, tx, comp_name) ==
  side = "c" /\ tx.mod_a = comp_name

\* The pair edges a c_free arm (side "c") or an n_free arm (side "n") of
\* component comp_name is matched with (lines 143 and 228).
is_match(side, tx, comp_name) ==
  IF side = "c" THEN tx.mod_a = comp_name ELSE tx.mod_b = comp_name

\* What one pass through a loop body leaves behind: st holds the units map,
\* the connector edges, the ids handed out and the exception, if any.
Fail(st, e) == [st EXCEPT !.err = e]

\* The fit of the c_free body (lines 152-154, 179-186).
hub_c_call(double, hub, hub_chain_id, rc_dbl_a) ==
  LET rc_hub_a == get_chain_residue_count(hub, hub_chain_id)
      fc == fusion_count(rc_dbl_a, hub_fusion_factor)
  IN fit_call(double, "A", hub, hub_chain_id, rc_dbl_a - fc, rc_hub_a - fc, fc)

\* The fit of the n_free body (lines 231-233, 240-247).
hub_n_call(double, hub, hub_chain_id, rc_a, rc_b) ==
  fit_call(double, "A", hub, hub_chain_id, rc_a, 0, fusion_count(rc_b, hub_fusion_factor))

\* Body of the c_free loop (lines 152-225) for the pair edge tx.
hub_c_step(st, hub_name, hub, arm, tx, empty_ok) ==
  LET hub_chain_id == arm.chain
      comp_name == arm.single_name
      single_b_name == tx.mod_b
  IN IF ~HasChain(hub, hub_chain_id) THEN Fail(st, "KeyError")
     ELSE
     LET rc_dbl_a == get_pdb_residue_count(single_pdbs[comp_name])
         double == double_pdbs[<<comp_name, single_b_name>>]
         hub_single_chain_id == first_chain_id(single_pdbs[comp_name])
         single_b_chain_id == first_chain_id(single_pdbs[single_b_name])
         c_map == st.mods.singles[comp_name].chains[hub_single_chain_id].c
         key == <<single_b_name, single_b_chain_id>>
     IN IF key \notin DOMAIN c_map THEN Fail(st, "TypeError")
        ELSE IF c_map[key] >= Len(n_to_c_tx) THEN Fail(st, "IndexError")
        ELSE
        LET fit == fit_result(hub_c_call(double, hub, hub_chain_id, rc_dbl_a), empty_ok)
            tx_new == create_tx(hub_name, hub_chain_id, single_b_name, single_b_chain_id)
            tx_id == hub_tx_id(n_to_c_tx, st.htx)
            m1 == set_neighbor(st.mods, "hubs", hub_name, hub_chain_id, "c",
                               single_b_name, single_b_chain_id, tx_id)
            m2 == [m1 EXCEPT !.hubs[hub_name].chains[hub_chain_id].c_tip = "vec"]
            m3 == set_neighbor(m2, "singles", single_b_name, single_b_chain_id, "n",
                               hub_name, hub_chain_id, tx_id)
        IN IF fit # "ok" THEN Fail(st, fit)
           ELSE IF find_tip_error(hub, hub_chain_id) # "none"
           THEN [st EXCEPT !.mods = m1, !.err = find_tip_error(hub, hub_chain_id)]
           ELSE [st EXCEPT !.mods = m3,
                           !.htx = Append(@, tx_new),
                           !.ids = Append(@, [id |-> tx_id, tx |-> tx_new, list |-> "hub_tx"])]

\* Variant of hub_n_key that files the id under the component's name.
hub_n_key_component(hub_name, comp_name) == comp_name

\* The unit name under which the n_free body files the new id in standalone
\* A's c-side map (lines 275-277): the connector's.
hub_n_key(hub_name, comp_name) == hub_name

\* Body of the n_free loop (lines 231-287) for the pair edge tx.
hub_n_step(st, hub_name, hub, arm, tx, empty_ok) ==
  LET hub_chain_id == arm.chain
      comp_name == arm.single_name
      single_a_name == tx.mod_a
      rc_a == get_pdb_residue_count(single_pdbs[single_a_name])
      rc_b == get_pdb_residue_count(single_pdbs[comp_name])
      double == double_pdbs[<<single_a_name, comp_name>>]
      fit == fit_result(hub_n_call(double, hub, hub_chain_id, rc_a, rc_b), empty_ok)
      single_a_chain_id == first_chain_id(single_pdbs[single_a_name])
      tx_new == create_tx(single_a_name, single_a_chain_id, hub_name, hub_chain_id)
      tx_id == hub_tx_id(n_to_c_tx, st.htx)
      m1 == set_neighbor(st.mods, "singles", single_a_name, single_a_chain_id, "c",
                         hub_n_key(hub_name, comp_name), hub_chain_id, tx_id)
      m2 == set_neighbor(m1, "hubs", hub_name, hub_chain_id, "n",
                         single_a_name, single_a_chain_id, tx_id)
      m3 == [m2 EXCEPT !.hubs[hub_name].chains[hub_chain_id].n_tip = "vec"]
  IN IF fit # "ok" THEN Fail(st, fit)
     ELSE IF find_tip_error(hub, hub_chain_id) # "none"
     THEN [st EXCEPT !.mods = m2, !.err = find_tip_error(hub, hub_chain_id)]
     ELSE [st EXCEPT !.mods = m3,
                     !.htx = Append(@, tx_new),
                     !.ids = Append(@, [id |-> tx_id, tx |-> tx_new, list |-> "hub_tx"])]

\* "for ... in (tx[...] for tx in self.n_to_c_tx if ...)": the pair edges
\* from position k on, in list order, until the first exception.
RECURSIVE hub_loop(_, _, _, _, _, _, _)
hub_loop(st, side, hub_name, hub, arm, k, empty_ok) ==
  IF st.err # "none" \/ k > Len(n_to_c_tx) THEN st
  ELSE LET tx == n_to_c_tx[k]
           st1 == IF ~is_match(side, tx, arm.single_name) THEN st
                  ELSE IF side = "c" THEN hub_c_step(st, hub_name, hub, arm, tx, empty_ok)
                  ELSE hub_n_step(st, hub_name, hub, arm, tx, empty_ok)
       IN hub_loop(st1, side, hub_name, hub, arm, k + 1, empty_ok)

\* "for hub_chain_id in comp_data" from arm i on (lines 138-287).
RECURSIVE hub_arms(_, _, _, _, _, _)
hub_arms(st, hub_name, hub, comp_data, i, empty_ok) ==
  IF st.err # "none" \/ i > Len(comp_data) THEN st
  ELSE LET arm == comp_data[i]
           st1 == IF arm.c_free THEN hub_loop(st, "c", hub_name, hub, arm, 1, empty_ok) ELSE st
           st2 == IF arm.n_free THEN hub_loop(st1, "n", hub_name, hub, arm, 1, empty_ok) ELSE st1
       IN hub_arms(st2, hub_name, hub, comp_data, i + 1, empty_ok)

\* Variant of hub_meta_error without the assertion.
hub_meta_error_unchecked(hub_meta) == "none"

\* hub_meta = self.hub_info.get(hub_name, None); assert(hub_meta != None)
hub_meta_error(hub_meta) == IF ~hub_meta.present THEN "AssertionError" ELSE "none"

\* process_hub on the centred structure hub, started with the units map,
\* connector edge list and ids of st0: the exception raised ("none" if it
\* returns) and what the call leaves in the units map, the connector edge
\* list and the metadata record.
process_hub_from(st0, hub_name, hub, hub_meta, empty_ok) ==
  LET comp_data == hub_meta.component_data
      deleted == [hub_meta EXCEPT !.has_component_data = FALSE]
      entry == [chains |-> hub_chain_entries(hub, comp_data), radii |-> "radii"]
  IN IF hub_meta_error(hub_meta) # "none"
     THEN [st |-> Fail(st0, hub_meta_error(hub_meta)), meta |-> hub_meta]
     ELSE IF ~hub_meta.has_component_data
             \/ \E i \in DOMAIN hub.chains : ~HasArm(comp_data, hub.chains[i].id)
     THEN [st |-> Fail(st0, "KeyError"), meta |-> deleted]
     ELSE IF get_radii_error(hub) # "none"
     THEN [st |-> Fail(st0, get_radii_error(hub)), meta |-> deleted]
     ELSE [st |-> hub_arms([st0 EXCEPT !.mods.hubs = Put(@, hub_name, entry)],
                           hub_name, hub, comp_data, 1, empty_ok),
           meta |-> deleted]

\* process_hub as run() calls it: on the object's current fields.
process_hub(hub_name, hub, hub_meta, empty_ok) ==
  process_hub_from([mods |-> modules, htx |-> hub_tx, ids |-> issued, err |-> "none"],
                   hub_name, hub, hub_meta, empty_ok)

ProcessHub ==
  /\ pc = "hubs"
  /\ \E hub_name \in Todo("hubs", hub_files), cs \in HubFiles,
        hub_meta \in HubMetas, empty_ok \in BOOLEAN :
       LET hub == move_to_origin(read_pdb(cs))
           r == process_hub(hub_name, hub, hub_meta, empty_ok)
       IN /\ started' = started \cup {<<"hubs", hub_name>>}
          /\ current' = [kind |-> "hubs", name |-> <<hub_name>>, struct |-> hub]
          /\ hub_info' = Put(hub_info, hub_name, r.meta)
          /\ modules' = r.st.mods
          /\ hub_tx' = r.st.htx
          /\ issued' = r.st.ids
          /\ IF r.st.err # "none"
             THEN /\ Abort(r.st.err)
                  /\ UNCHANGED <<finished, aligned>>
             ELSE /\ aligned' = aligned \cup {<<"hubs", hub_name>>}
                  /\ finished' = finished \cup {<<"hubs", hub_name>>}
                  /\ UNCHANGED <<pc, err>>
  /\ UNCHANGED <<single_files, double_files, hub_files, n_to_c_tx, single_pdbs,
                 double_pdbs, xdb, calc>>

\* ------------------------------------------------------------------ run()
\* glob of the pair files once the loop over the standalone files has ended.
GlobDoubles ==
  /\ pc = "singles"
  /\ loop_done("singles", single_files)
  /\ \E files \in SUBSET PairNames :
       /\ Cardinality(files) <= MaxDoubles
       /\ double_files' = files
  /\ pc' = "doubles"
  /\ UNCHANGED <<err, single_files, hub_files, started, finished, hub_info, modules,
                 n_to_c_tx, hub_tx, single_pdbs, double_pdbs, aligned, xdb, issued, current,
                 calc>>

\* glob of the connector files once the loop over the pair files has ended.
GlobHubs ==
  /\ pc = "doubles"
  /\ loop_done("doubles", double_files)
  /\ hub_files' \in SUBSET HubNames
  /\ pc' = "hubs"
  /\ UNCHANGED <<err, single_files, double_files, started, finished, hub_info, modules,
                 n_to_c_tx, hub_tx, single_pdbs, double_pdbs, aligned, xdb, issued, current,
                 calc>>

\* Variant of concat_tx that puts the connector edges first.
concat_tx_reversed(pair_edges, connector_edges) == connector_edges \o pair_edges

\* self.n_to_c_tx += self.hub_tx (line 652).
concat_tx(pair_edges, connector_edges) == pair_edges \o connector_edges

\* End of run(): concatenate the two edge lists and dump_xdb.
DumpXdb ==
  /\ pc = "hubs"
  /\ loop_done("hubs", hub_files)
  /\ n_to_c_tx' = concat_tx(n_to_c_tx, hub_tx)
  /\ xdb' = [written |-> TRUE, modules |-> modules, n_to_c_tx |-> n_to_c_tx']
  /\ pc' = "done"
  /\ UNCHANGED <<err, single_files, double_files, hub_files, started, finished, hub_info,
                 modules, hub_tx, single_pdbs, double_pdbs, aligned, issued, current, calc>>

Next ==
  \/ ProcessSingle
  \/ GlobDoubles
  \/ ProcessDouble
  \/ GlobHubs
  \/ ProcessHub
  \/ DumpXdb

Spec == Init /\ [][Next]_vars

\* ------------------------------------------- fits and find_tip on their own
\* find_tip(term, struct, chain_id) on a chain of n residues: the exception
\* raised, or the window residues[start_idx:end_idx] whose coordinates are
\* summed and the number the sum is divided by.  The sum is a numpy array,
\* so a divisor of 0 raises nothing and yields inf/nan components.
find_tip(term, n) ==
  IF n <= 0
  THEN [err |-> "AssertionError", start_idx |-> 0, end_idx |-> 0, summed |-> 0, divisor |-> 0]
  ELSE LET divider == 6
           start_idx == IF term = "n" THEN 0 ELSE ((divider - 1) * n) \div divider
           end_idx == IF term = "n" THEN n \div divider ELSE n
       IN [err |-> "none", start_idx |-> start_idx, end_idx |-> end_idx,
           summed |-> SliceLen(n, start_idx, end_idx),
           divisor |-> end_idx - start_idx - 1]

\* A structure of one chain 'A' with n residues.
one_chain(n) == read_pdb(<<[id |-> "A", n |-> n]>>)

\* What one get_rot_trans call does: the two chain lengths, the two windows
\* asked for, the lengths of the two atom lists handed to the superimposer
\* and the outcome.
call_record(call, empty_ok) ==
  LET moving_len == get_chain_residue_count(call.moving, call.moving_chain_id)
      fixed_len == get_chain_residue_count(call.fixed, call.fixed_chain_id)
  IN [moving_len |-> moving_len, fixed_len |-> fixed_len,
      moving_resi_offset |-> call.moving_resi_offset,
      fixed_resi_offset |-> call.fixed_resi_offset,
      match_count |-> call.match_count,
      ma |-> SliceLen(moving_len, call.moving_resi_offset,
                      call.moving_resi_offset + call.match_count),
      fa |-> SliceLen(fixed_len, call.fixed_resi_offset,
                      call.fixed_resi_offset + call.match_count),
      result |-> fit_result(call, empty_ok)]

\* The calls of a sequence that are made: up to the first one that raises.
RECURSIVE calls_made(_, _, _)
calls_made(calls, k, empty_ok) ==
  IF k > Len(calls) THEN <<>>
  ELSE LET r == call_record(calls[k], empty_ok)
       IN IF r.result # "ok" THEN <<r>> ELSE <<r>> \o calls_made(calls, k + 1, empty_ok)

FitInit ==
  /\ pc = "singles"
  /\ err = "none"
  /\ single_files = {}
  /\ double_files = {}
  /\ hub_files = {}
  /\ started = {}
  /\ finished = {}
  /\ hub_info = NoMap
  /\ modules = [singles |-> NoMap, hubs |-> NoMap]
  /\ n_to_c_tx = <<>>
  /\ hub_tx = <<>>
  /\ single_pdbs = NoMap
  /\ double_pdbs = NoMap
  /\ aligned = {}
  /\ xdb = [written |-> FALSE, modules |-> [singles |-> NoMap, hubs |-> NoMap], n_to_c_tx |-> <<>>]
  /\ issued = <<>>
  /\ current = [kind |-> "none", name |-> "", struct |-> EmptyDict]
  /\ calc = NoCalc

\* The variables of run() stay as constructed.
OnlyCalc ==
  /\ UNCHANGED <<pc, err, single_files, double_files, hub_files, started, finished, hub_info,
                 modules, n_to_c_tx, hub_tx, single_pdbs, double_pdbs, aligned, xdb, issued,
                 current>>

\* Each behaviour runs one fit sequence or one find_tip call.
\* The fits of one process_double call: parents of rc_a and rc_b residues,
\* a pair file of rc_double residues.
FitDouble ==
  /\ calc = NoCalc
  /\ \E rc_a \in 1..MaxRes, rc_b \in 1..MaxRes, rc_double \in 1..(2 * MaxRes),
        empty_ok \in BOOLEAN :
       LET single_a == move_to_origin(one_chain(rc_a))
           single_b == move_to_origin(one_chain(rc_b))
           double == one_chain(rc_double)
       IN calc' = [op |-> "process_double",
                   rc |-> <<rc_a, rc_b, rc_double>>,
                   factor |-> dbl_fusion_factor,
                   counts |-> <<fusion_count(rc_a, dbl_fusion_factor),
                                fusion_count(rc_b, dbl_fusion_factor),
                                fusion_count(rc_b, dbl_fusion_factor)>>,
                   sides |-> <<rc_a, rc_b, rc_b>>,
                   calls |-> calls_made(double_calls(double, single_a, single_b), 1, empty_ok),
                   err |-> double_fit_error(double, single_a, single_b, empty_ok)]
  /\ OnlyCalc

\* The pair structures the connector stage can find in the cache: those
\* process_double accepted for parents of rc_a and rc_b residues.
CachedPairLens(rc_a, rc_b) ==
  {rc_double \in 1..(2 * MaxRes) :
     \E ok \in BOOLEAN :
       double_fit_error(one_chain(rc_double), move_to_origin(one_chain(rc_a)),
                        move_to_origin(one_chain(rc_b)), ok) = "none"}

\* The fit of one pass through the c_free body: component of rc_a residues,
\* partner B of rc_b residues, connector arm of rc_hub residues.
FitHubC ==
  /\ calc = NoCalc
  /\ \E rc_a \in 1..MaxRes, rc_b \in 1..MaxRes, rc_hub \in 1..MaxRes, empty_ok \in BOOLEAN :
       \E rc_double \in CachedPairLens(rc_a, rc_b) :
         LET hub == move_to_origin(one_chain(rc_hub))
             double == align(one_chain(rc_double), one_chain(rc_a)).moving
         IN calc' = [op |-> "hub_c",
                     rc |-> <<rc_a, rc_b, rc_double, rc_hub>>,
                     factor |-> hub_fusion_factor,
                     counts |-> <<fusion_count(rc_a, hub_fusion_factor)>>,
                     sides |-> <<rc_a>>,
                     calls |-> calls_made(<<hub_c_call(double, hub, "A", rc_a)>>, 1, empty_ok),
                     err |-> fit_result(hub_c_call(double, hub, "A", rc_a), empty_ok)]
  /\ OnlyCalc

\* The fit of one pass through the n_free body: parent A of rc_a residues,
\* component of rc_b residues, connector arm of rc_hub residues.
FitHubN ==
  /\ calc = NoCalc
  /\ \E rc_a \in 1..MaxRes, rc_b \in 1..MaxRes, rc_hub \in 1..MaxRes, empty_ok \in BOOLEAN :
       \E rc_double \in CachedPairLens(rc_a, rc_b) :
         LET hub == move_to_origin(one_chain(rc_hub))
             double == align(one_chain(rc_double), one_chain(rc_a)).moving
         IN calc' = [op |-> "hub_n",
                     rc |-> <<rc_a, rc_b, rc_double, rc_hub>>,
                     factor |-> hub_fusion_factor,
                     counts |-> <<fusion_count(rc_b, hub_fusion_factor)>>,
                     sides |-> <<rc_b>>,
                     calls |-> calls_made(<<hub_n_call(double, hub, "A", rc_a, rc_b)>>, 1, empty_ok),
                     err |-> fit_result(hub_n_call(double, hub, "A", rc_a, rc_b), empty_ok)]
  /\ OnlyCalc

\* One find_tip call on a chain of n residues.
FindTip ==
  /\ calc = NoCalc
  /\ \E term \in Sides, n \in 0..MaxTipRes :
       calc' = [op |-> "find_tip", term |-> term, n |-> n, tip |-> find_tip(term, n)]
  /\ OnlyCalc

FitNext ==
  \/ FitDouble
  \/ FitHubC
  \/ FitHubN
  \/ FindTip

FitSpec == FitInit /\ [][FitNext]_vars

\* ================================================================ claims
Kinds == {"singles", "hubs"}

\* The id a neighbor map holds under a key, -1 when there is no such entry.
Nb(mods, kind, name, chain, side, key) ==
  IF /\ name \in DOMAIN mods[kind]
     /\ chain \in DOMAIN mods[kind][name].chains
     /\ key \in DOMAIN mods[kind][name].chains[chain][side]
  THEN mods[kind][name].chains[chain][side][key]
  ELSE -1

\* Some unit of that name holds the id under the key on that side.
HasNb(mods, name, chain, side, key, id) ==
  \E kind \in Kinds : Nb(mods, kind, name, chain, side, key) = id

\* Every id held by any neighbor map, with its place.
NbEntries(mods) ==
  UNION {UNION {UNION {UNION {
    {<<kind, name, chain, side, key, mods[kind][name].chains[chain][side][key]>> :
       key \in DOMAIN mods[kind][name].chains[chain][side]} :
    side \in Sides} :
    chain \in DOMAIN mods[kind][name].chains} :
    name \in DOMAIN mods[kind]} :
    kind \in Kinds}

\* All edges in id order: the two lists until run() joins them.
Flat == IF pc = "done" THEN n_to_c_tx ELSE n_to_c_tx \o hub_tx

Failing == pc # "failed" /\ pc' = "failed"

\* C1: when process_double returns for the pair file "A-B", the pair-edge list
\* has grown by exactly the edge (A, A's only chain) -> (B, B's only chain),
\* the connector-edge list is unchanged, and the index of the new edge is the
\* value both of A's c-side entry for B and of B's n-side entry for A.
C1_PairEdgeRecorded ==
  [][\A p \in PairNames :
       <<"doubles", p>> \in finished' \ finished =>
         LET chain_a == first_chain_id(single_pdbs[p[1]])
             chain_b == first_chain_id(single_pdbs[p[2]])
             id == Len(n_to_c_tx)
         IN /\ single_pdbs[p[1]].is_struct /\ Len(single_pdbs[p[1]].chains) = 1
            /\ single_pdbs[p[2]].is_struct /\ Len(single_pdbs[p[2]].chains) = 1
            /\ n_to_c_tx' = Append(n_to_c_tx, create_tx(p[1], chain_a, p[2], chain_b))
            /\ hub_tx' = hub_tx
            /\ Nb(modules', "singles", p[1], chain_a, "c", <<p[2], chain_b>>) = id
            /\ Nb(modules', "singles", p[2], chain_b, "n", <<p[1], chain_a>>) = id
    ]_vars

C1_Witness ==
  /\ <<"doubles", <<"a", "b">>>> \in finished
  /\ <<"doubles", <<"b", "b">>>> \in finished

\* C2 as claimed: in the dumped database every edge's index is the value of
\* the c-side entry of a unit named mod_a and of the n-side entry of a unit
\* named mod_b, whatever the names of the inputs.
AllIdsInMaps(mods, txs) ==
  \A i \in DOMAIN txs :
    /\ HasNb(mods, txs[i].mod_a, txs[i].mod_a_chain, "c",
             <<txs[i].mod_b, txs[i].mod_b_chain>>, i - 1)
    /\ HasNb(mods, txs[i].mod_b, txs[i].mod_b_chain, "n",
             <<txs[i].mod_a, txs[i].mod_a_chain>>, i - 1)

C2_Claimed == xdb.written => AllIdsInMaps(xdb.modules, xdb.n_to_c_tx)

\* C2 as amended: the same, for runs in which no connector file has the name
\* of a standalone file.
C2_IdsInMapsDistinctNames ==
  (xdb.written /\ hub_files \cap single_files = {}) =>
    AllIdsInMaps(xdb.modules, xdb.n_to_c_tx)

C2_Witness ==
  /\ xdb.written
  /\ hub_files \cap single_files = {}
  /\ Len(hub_tx) >= 2
  /\ Len(xdb.n_to_c_tx) >= Len(hub_tx) + 2

\* C3: the k-th id handed out is k-1, the number of edges recorded before it,
\* and its edge stands at that index of the flat list (the two lists joined,
\* and the dumped list at the end); no edge is without an id.
C3_IdsDense ==
  /\ Len(issued) = Len(Flat)
  /\ \A k \in DOMAIN issued :
       /\ issued[k].id = k - 1
       /\ issued[k].id + 1 \in DOMAIN Flat
       /\ Flat[issued[k].id + 1] = issued[k].tx
  /\ xdb.written => xdb.n_to_c_tx = Flat

C3_Witness ==
  /\ xdb.written
  /\ Len(hub_tx) >= 2
  /\ Len(n_to_c_tx) >= Len(hub_tx) + 2

\* C4: no id goes to the pair-edge list after one went to the connector-edge
\* list, and the dumped list is the pair-derived edges in order followed by
\* the connector-derived edges in order.
C4_PairsBeforeHubs ==
  /\ \A j, k \in DOMAIN issued :
       (j < k /\ issued[j].list = "hub_tx") => issued[k].list = "hub_tx"
  /\ xdb.written =>
       /\ Len(xdb.n_to_c_tx) = Len(issued)
       /\ \A k \in DOMAIN issued : xdb.n_to_c_tx[k] = issued[k].tx

C4_Witness ==
  /\ xdb.written
  /\ Len(hub_tx) >= 1
  /\ Len(n_to_c_tx) >= Len(hub_tx) + 1
  /\ n_to_c_tx[1] # hub_tx[1]

\* C5: a pair file is handed to process_double only when every standalone
\* file has been processed, a connector file to process_hub only when every
\* pair file has been processed, and the database is dumped only when every
\* connector file has been processed.
AllFinished(kind, files) == \A f \in files : <<kind, f>> \in finished

C5_StageBarrier ==
  /\ (\E d \in PairNames : <<"doubles", d>> \in started) => AllFinished("singles", single_files)
  /\ (\E h \in HubNames : <<"hubs", h>> \in started) =>
       AllFinished("singles", single_files) /\ AllFinished("doubles", double_files)
  /\ xdb.written =>
       /\ AllFinished("singles", single_files)
       /\ AllFinished("doubles", double_files)
       /\ AllFinished("hubs", hub_files)

C5_Witness ==
  /\ xdb.written
  /\ single_files = SingleNames
  /\ Cardinality(double_files) = MaxDoubles
  /\ hub_files = HubNames

\* C6: a standalone file whose structure has not exactly one chain makes
\* process_single fail with its precondition error; nothing of that file is
\* saved, entered in the units map or cached, and no database is written.
C6_SingleChainCount ==
  (current.kind = "singles" /\ Len(current.struct.chains) # 1) =>
    /\ pc = "failed"
    /\ err = "AssertionError"
    /\ <<"singles", current.name[1]>> \notin aligned
    /\ current.name[1] \notin DOMAIN modules.singles
    /\ current.name[1] \notin DOMAIN single_pdbs
    /\ ~xdb.written

C6_Witness ==
  /\ current.kind = "singles"
  /\ Len(current.struct.chains) = 2
  /\ pc = "failed"
  /\ DOMAIN single_pdbs # {}

\* C7: a process_hub call that finds no metadata entry for its connector
\* fails with the assertion, and leaves both edge lists, the units map and
\* the aligned-output store as they were.
C7_MissingMeta ==
  [][\A h \in HubNames :
       (<<"hubs", h>> \in started' \ started /\ ~hub_info'[h].present) =>
         /\ pc' = "failed"
         /\ err' = "AssertionError"
         /\ n_to_c_tx' = n_to_c_tx
         /\ hub_tx' = hub_tx
         /\ modules' = modules
         /\ h \notin DOMAIN modules'.hubs
         /\ aligned' = aligned
    ]_vars

C7_Witness ==
  /\ pc = "failed"
  /\ current.kind = "hubs"
  /\ ~hub_info[current.name[1]].present
  /\ Len(hub_tx) >= 1

\* C8 as claimed: a failing process_* call leaves both edge lists and every
\* neighbor-map id as they were when the call began.
C8_Claimed ==
  [][Failing =>
       /\ n_to_c_tx' = n_to_c_tx
       /\ hub_tx' = hub_tx
       /\ NbEntries(modules') = NbEntries(modules)
    ]_vars

\* C8 as amended: a failing process_single or process_double leaves both
\* edge lists and every neighbor-map id as they were; a failing process_hub
\* leaves the pair-edge list as it was and keeps the connector edges it
\* recorded before the failure; every id in a neighbor map is the index of a
\* recorded edge; and a failed run writes no database.
C8_FailureEffects ==
  [][/\ (Failing /\ current'.kind # "hubs") =>
          /\ n_to_c_tx' = n_to_c_tx
          /\ hub_tx' = hub_tx
          /\ NbEntries(modules') = NbEntries(modules)
     /\ (Failing /\ current'.kind = "hubs") =>
          /\ n_to_c_tx' = n_to_c_tx
          /\ Len(hub_tx') >= Len(hub_tx)
          /\ SubSeq(hub_tx', 1, Len(hub_tx)) = hub_tx
     /\ \A e \in NbEntries(modules') : e[6] >= 0 /\ e[6] < Len(n_to_c_tx') + Len(hub_tx')
     /\ pc' = "failed" => ~xdb'.written
    ]_vars

C8_Witness ==
  /\ pc = "failed"
  /\ current.kind = "hubs"
  /\ current.name = <<"h">>
  /\ \E k \in DOMAIN hub_tx : hub_tx[k].mod_a = "h" \/ hub_tx[k].mod_b = "h"

\* C9 as claimed: every structure in the standalone cache and every
\* structure in the fused-pair cache has the centered flag set.
C9_Claimed ==
  /\ \A s \in DOMAIN single_pdbs : single_pdbs[s].is_struct => single_pdbs[s].at_origin
  /\ \A d \in DOMAIN double_pdbs : double_pdbs[d].at_origin

\* C9 as amended: get_radii never meets a structure without the centered
\* flag, every structure in the standalone cache and every connector that
\* has a units-map entry has the flag set, and the structures in the
\* fused-pair cache (aligned onto parent A, never centered) do not have it.
C9_CenteredBeforeUse ==
  /\ err # "ValueError"
  /\ \A s \in DOMAIN single_pdbs : single_pdbs[s].is_struct => single_pdbs[s].at_origin
  /\ \A s \in DOMAIN modules.singles : s \in DOMAIN single_pdbs /\ single_pdbs[s].at_origin
  /\ (current.kind = "hubs" /\ current.name[1] \in DOMAIN modules.hubs) => current.struct.at_origin
  /\ \A d \in DOMAIN double_pdbs : ~double_pdbs[d].at_origin

C9_Witness ==
  /\ DOMAIN single_pdbs = SingleNames
  /\ DOMAIN double_pdbs # {}
  /\ current.kind = "hubs"
  /\ current.name[1] \in DOMAIN modules.hubs

\* C10: a process_hub call that returns has appended to the connector-edge
\* list exactly one edge (connector, arm) -> (B, B's chain) for each c_free
\* arm and each pair-derived edge whose mod_a is the arm's component, exactly
\* one edge (A, A's chain) -> (connector, arm) for each n_free arm and each
\* pair-derived edge whose mod_b is the arm's component, and nothing else;
\* the pair-edge list is unchanged.
HubMatches(cd) ==
  {m \in (DOMAIN cd) \X Sides \X (DOMAIN n_to_c_tx) :
     \/ m[2] = "c" /\ cd[m[1]].c_free /\ n_to_c_tx[m[3]].mod_a = cd[m[1]].single_name
     \/ m[2] = "n" /\ cd[m[1]].n_free /\ n_to_c_tx[m[3]].mod_b = cd[m[1]].single_name}

HubEdgeOf(h, cd, m) ==
  IF m[2] = "c"
  THEN create_tx(h, cd[m[1]].chain, n_to_c_tx[m[3]].mod_b,
                 first_chain_id(single_pdbs[n_to_c_tx[m[3]].mod_b]))
  ELSE create_tx(n_to_c_tx[m[3]].mod_a, first_chain_id(single_pdbs[n_to_c_tx[m[3]].mod_a]),
                 h, cd[m[1]].chain)

C10_HubEdges ==
  [][\A h \in HubNames :
       <<"hubs", h>> \in finished' \ finished =>
         LET cd == hub_info'[h].component_data
             new == SubSeq(hub_tx', Len(hub_tx) + 1, Len(hub_tx'))
             expected == {HubEdgeOf(h, cd, m) : m \in HubMatches(cd)}
             got == {new[j] : j \in DOMAIN new}
         IN /\ n_to_c_tx' = n_to_c_tx
            /\ Len(hub_tx') >= Len(hub_tx)
            /\ SubSeq(hub_tx', 1, Len(hub_tx)) = hub_tx
            /\ \A e \in expected \cup got :
                 Cardinality({j \in DOMAIN new : new[j] = e})
                   = Cardinality({m \in HubMatches(cd) : HubEdgeOf(h, cd, m) = e})
    ]_vars

C10_Witness ==
  /\ <<"hubs", "h">> \in finished
  /\ <<"hubs", "a">> \in finished
  /\ \E j, k \in DOMAIN hub_tx : hub_tx[j].mod_a = "h" /\ hub_tx[k].mod_b = "h"
  /\ Len(hub_tx) >= 3

\* C14 as claimed: an entry of the standalone cache or of the fused-pair
\* cache never changes once it is there, and a key appears in a cache only
\* when process_single (process_double) stores the structure of that file.
CacheEntriesKept ==
  /\ \A s \in DOMAIN single_pdbs : s \in DOMAIN single_pdbs' /\ single_pdbs'[s] = single_pdbs[s]
  /\ \A d \in DOMAIN double_pdbs : d \in DOMAIN double_pdbs' /\ double_pdbs'[d] = double_pdbs[d]

C14_Claimed ==
  [][/\ CacheEntriesKept
     /\ \A s \in DOMAIN single_pdbs' \ DOMAIN single_pdbs :
          <<"singles", s>> \in finished' \ finished
     /\ \A d \in DOMAIN double_pdbs' \ DOMAIN double_pdbs :
          <<"doubles", d>> \in finished' \ finished
    ]_vars

\* C14 as amended: an entry of either cache never changes once it is there
\* (coordinates, centered flag and chains of a cached standalone stay as
\* process_single left them); a pair key appears only when process_double
\* stores its aligned structure; a standalone key appears either when
\* process_single stores its centered structure, or as an empty placeholder
\* when process_double looks up a parent that was never processed, and that
\* call then fails.
C14_CacheFrame ==
  [][/\ CacheEntriesKept
     /\ \A s \in DOMAIN single_pdbs' \ DOMAIN single_pdbs :
          \/ /\ <<"singles", s>> \in finished' \ finished
             /\ single_pdbs'[s].is_struct
             /\ single_pdbs'[s].frame = "origin"
          \/ /\ single_pdbs'[s] = EmptyDict
             /\ current'.kind = "doubles"
             /\ s \in {current'.name[1], current'.name[2]}
             /\ <<"singles", s>> \notin finished
             /\ Failing
     /\ \A d \in DOMAIN double_pdbs' \ DOMAIN double_pdbs :
          /\ <<"doubles", d>> \in finished' \ finished
          /\ double_pdbs'[d].frame = "aligned"
    ]_vars

C14_Witness ==
  /\ xdb.written
  /\ DOMAIN double_pdbs # {}
  /\ Len(hub_tx) >= 1
  /\ \A s \in DOMAIN single_pdbs : single_pdbs[s].frame = "origin"

\* C11 as claimed: once process_hub has returned for a connector, every arm
\* of its metadata that has a chain entry and is flagged c_free has a c_tip
\* that is a vector, and every such arm flagged n_free has an n_tip that is
\* a vector, whether or not a pair-derived edge matches the arm's component.
C11_Claimed ==
  \A h \in HubNames :
    <<"hubs", h>> \in finished =>
      LET cd == hub_info[h].component_data
          chains == modules.hubs[h].chains
      IN \A i \in DOMAIN cd :
           cd[i].chain \in DOMAIN chains =>
             /\ cd[i].c_free => chains[cd[i].chain].c_tip = "vec"
             /\ cd[i].n_free => chains[cd[i].chain].n_tip = "vec"

\* The pair-derived edges: the ids that went to the pair-edge list.
PairEdges == {issued[k].tx : k \in {j \in DOMAIN issued : issued[j].list = "n_to_c_tx"}}

\* The unit of that name in the standalone units map has that chain.
IsSingleEnd(name, chain) ==
  /\ name \in DOMAIN modules.singles
  /\ chain \in DOMAIN modules.singles[name].chains

\* C12 as claimed: every pair-derived edge has mod_a different from mod_b,
\* and both are names of standalone units in the units map.
C12_Claimed ==
  \A tx \in PairEdges :
    /\ tx.mod_a # tx.mod_b
    /\ tx.mod_a \in DOMAIN modules.singles
    /\ tx.mod_b \in DOMAIN modules.singles

\* C12 as amended: every pair-derived edge runs from the first to the second
\* parent named by a processed pair file, one edge per processed pair file;
\* both parents are standalone units present in the units map and in the
\* cache, with the edge's chains; the two parents are the same unit exactly
\* when the file is named "A-A".
C12_PairEndpoints ==
  /\ \A tx \in PairEdges :
       /\ <<"doubles", <<tx.mod_a, tx.mod_b>>>> \in finished
       /\ IsSingleEnd(tx.mod_a, tx.mod_a_chain)
       /\ IsSingleEnd(tx.mod_b, tx.mod_b_chain)
       /\ single_pdbs[tx.mod_a].is_struct
       /\ single_pdbs[tx.mod_b].is_struct
  /\ \A d \in PairNames :
       <<"doubles", d>> \in finished =>
         Cardinality({k \in DOMAIN issued : /\ issued[k].list = "n_to_c_tx"
                                            /\ issued[k].tx.mod_a = d[1]
                                            /\ issued[k].tx.mod_b = d[2]}) = 1

C12_Witness ==
  /\ \E tx \in PairEdges : tx.mod_a = tx.mod_b
  /\ \E tx \in PairEdges : tx.mod_a # tx.mod_b

\* C13: every edge a process_hub call records has the connector being
\* processed, with one of its chains, as one endpoint and a standalone unit
\* of the units map, with its chain, as the other; when no connector file
\* has the name of a standalone file, exactly one endpoint of every
\* connector-derived edge names a connector and no endpoint of a
\* pair-derived edge does; every pair-derived edge has two standalone
\* endpoints.
C13_NoHubToHub ==
  [][/\ \A h \in HubNames :
          <<"hubs", h>> \in started' \ started =>
            \A k \in (DOMAIN hub_tx') \ (DOMAIN hub_tx) :
              LET tx == hub_tx'[k]
              IN \/ /\ tx.mod_a = h
                    /\ tx.mod_a_chain \in DOMAIN modules'.hubs[h].chains
                    /\ tx.mod_b \in DOMAIN modules'.singles
                    /\ tx.mod_b_chain \in DOMAIN modules'.singles[tx.mod_b].chains
                    /\ \E e \in DOMAIN n_to_c_tx : n_to_c_tx[e].mod_b = tx.mod_b
                 \/ /\ tx.mod_b = h
                    /\ tx.mod_b_chain \in DOMAIN modules'.hubs[h].chains
                    /\ tx.mod_a \in DOMAIN modules'.singles
                    /\ tx.mod_a_chain \in DOMAIN modules'.singles[tx.mod_a].chains
                    /\ \E e \in DOMAIN n_to_c_tx : n_to_c_tx[e].mod_a = tx.mod_a
     /\ hub_files' \cap single_files' = {} =>
          /\ \A k \in DOMAIN hub_tx' :
               (hub_tx'[k].mod_a \in hub_files') # (hub_tx'[k].mod_b \in hub_files')
          /\ \A k \in DOMAIN issued' :
               issued'[k].list = "n_to_c_tx" =>
                 issued'[k].tx.mod_a \notin hub_files' /\ issued'[k].tx.mod_b \notin hub_files'
     /\ \A k \in DOMAIN issued' :
          issued'[k].list = "n_to_c_tx" =>
            /\ issued'[k].tx.mod_a \in DOMAIN modules'.singles
            /\ issued'[k].tx.mod_b \in DOMAIN modules'.singles
    ]_vars

C13_Witness ==
  /\ hub_files = HubNames
  /\ <<"hubs", "h">> \in finished
  /\ <<"hubs", "a">> \in finished
  /\ \E j, k \in DOMAIN hub_tx : hub_tx[j].mod_a = "a" /\ hub_tx[k].mod_b = "h"

\* The units map as the pair stage leaves it, rebuilt from the standalone
\* cache and the pair-derived edges alone.
RECURSIVE PairMaps(_, _)
PairMaps(mods, k) ==
  IF k > Len(n_to_c_tx) THEN mods
  ELSE PairMaps(double_neighbors(mods, n_to_c_tx[k], k - 1), k + 1)

PairStage ==
  PairMaps([singles |-> [x \in DOMAIN modules.singles |-> single_entry(single_pdbs[x])],
            hubs |-> NoMap], 1)

\* The places of a units map that hold an id, without the ids.
NbKeys(mods) == {<<e[1], e[2], e[3], e[4], e[5]>> : e \in NbEntries(mods)}

\* What a process_hub call did is what the same call does when it is the
\* first of its stage: the same failure or success, and on success the same
\* edges in the same order and the same neighbor-map keys.
HubStepAsIfFirst ==
  \A h \in HubNames :
    <<"hubs", h>> \in started' \ started =>
      LET meta == [hub_info'[h] EXCEPT !.has_component_data = hub_info'[h].present]
          first == [mods |-> PairStage, htx |-> <<>>, ids |-> <<>>, err |-> "none"]
      IN \E empty_ok \in BOOLEAN :
           LET alone == process_hub_from(first, h, current'.struct, meta, empty_ok).st
           IN /\ alone.err = (IF pc' = "failed" THEN err' ELSE "none")
              /\ alone.err = "none" =>
                   /\ SubSeq(hub_tx', Len(hub_tx) + 1, Len(hub_tx')) = alone.htx
                   /\ NbKeys(modules') = NbKeys(modules) \cup NbKeys(alone.mods)

\* C15 as claimed: whatever the files are named, what process_hub does for
\* a connector file does not depend on the connector files processed before
\* it, ids apart.
C15_Claimed == [][HubStepAsIfFirst]_vars

\* The edges and neighbor-map keys of the database as a function of the set
\* of input files, with no reference to the order of processing.
ExpPair ==
  {create_tx(d[1], first_chain_id(single_pdbs[d[1]]), d[2], first_chain_id(single_pdbs[d[2]])) :
     d \in double_files}

ExpHubOf(h) ==
  LET cd == hub_info[h].component_data
  IN UNION {{create_tx(h, cd[i].chain, e.mod_b, e.mod_b_chain) :
               e \in {x \in ExpPair : cd[i].c_free /\ x.mod_a = cd[i].single_name}}
            \cup {create_tx(e.mod_a, e.mod_a_chain, h, cd[i].chain) :
               e \in {x \in ExpPair : cd[i].n_free /\ x.mod_b = cd[i].single_name}} :
            i \in DOMAIN cd}

ExpEdges == ExpPair \cup UNION {ExpHubOf(h) : h \in hub_files}

KindOf(name) == IF name \in hub_files THEN "hubs" ELSE "singles"

ExpKeys ==
  UNION {{<<KindOf(e.mod_a), e.mod_a, e.mod_a_chain, "c", <<e.mod_b, e.mod_b_chain>>>>,
          <<KindOf(e.mod_b), e.mod_b, e.mod_b_chain, "n", <<e.mod_a, e.mod_a_chain>>>>} :
         e \in ExpEdges}

DbFromFiles ==
  xdb.written =>
    /\ {xdb.n_to_c_tx[i] : i \in DOMAIN xdb.n_to_c_tx} = ExpEdges
    /\ Len(xdb.n_to_c_tx) = Cardinality(ExpEdges)
    /\ NbKeys(xdb.modules) = ExpKeys

\* C15 as amended: when no connector file has the name of a standalone
\* file, what process_hub does for a connector file does not depend on the
\* connector files processed before it, each pair file adds its one edge and
\* that edge's two neighbor-map keys whatever was processed before it, and
\* the edges and neighbor-map keys of the final database are determined by
\* the set of input files alone, ids apart.
C15_OrderFree ==
  [][hub_files' \cap single_files' = {} =>
       /\ HubStepAsIfFirst
       /\ \A d \in PairNames :
            <<"doubles", d>> \in finished' \ finished =>
              LET tx == n_to_c_tx'[Len(n_to_c_tx')]
              IN /\ tx = create_tx(d[1], first_chain_id(single_pdbs'[d[1]]),
                                   d[2], first_chain_id(single_pdbs'[d[2]]))
                 /\ NbKeys(modules') = NbKeys(modules) \cup
                      {<<"singles", tx.mod_a, tx.mod_a_chain, "c", <<tx.mod_b, tx.mod_b_chain>>>>,
                       <<"singles", tx.mod_b, tx.mod_b_chain, "n", <<tx.mod_a, tx.mod_a_chain>>>>}
       /\ DbFromFiles'
    ]_vars

C15_Witness ==
  /\ xdb.written
  /\ hub_files = HubNames
  /\ hub_files \cap single_files = {}
  /\ double_files # {}
  /\ Len(hub_tx) >= 3
  /\ \E j, k \in DOMAIN hub_tx : hub_tx[j].mod_a = "h" /\ hub_tx[k].mod_b = "a"

\* C20, first part: every id in a neighbor map is the index of an edge with
\* the endpoints the entry names: a c-side entry [V][cv] = i of unit U chain
\* cu has edge i = (U, cu) -> (V, cv), an n-side entry has edge i =
\* (V, cv) -> (U, cu).
EntriesMatchEdges ==
  \A e \in NbEntries(modules) :
    /\ e[6] + 1 \in DOMAIN Flat
    /\ LET tx == Flat[e[6] + 1]
       IN IF e[4] = "c"
          THEN tx = create_tx(e[2], e[3], e[5][1], e[5][2])
          ELSE tx = create_tx(e[5][1], e[5][2], e[2], e[3])

\* C20, second part: throughout the connector stage the c-side entry that
\* process_hub reads for a pair-derived edge is that edge's index, and no
\* process_hub call fails on that read.
PairIdsIntact ==
  /\ pc = "hubs" =>
       \A k \in DOMAIN n_to_c_tx :
         Nb(modules, "singles", n_to_c_tx[k].mod_a, n_to_c_tx[k].mod_a_chain, "c",
            <<n_to_c_tx[k].mod_b, n_to_c_tx[k].mod_b_chain>>) = k - 1
  /\ err \notin {"IndexError", "TypeError"}

\* C20 as claimed.
C20_Claimed == EntriesMatchEdges /\ PairIdsIntact

\* C20 as amended: the first part as claimed; the second part when no
\* connector file has the name of a standalone file.
C20_IdsReferToEdges ==
  /\ EntriesMatchEdges
  /\ hub_files \cap single_files = {} => PairIdsIntact

C20_Witness ==
  /\ pc = "hubs"
  /\ hub_files \cap single_files = {}
  /\ Len(n_to_c_tx) >= 2
  /\ Len(hub_tx) >= 2
  /\ \E k \in DOMAIN hub_tx : hub_tx[k].mod_a \in hub_files
  /\ \E k \in DOMAIN hub_tx : hub_tx[k].mod_b \in hub_files

\* ------------------------------------------- claims on the fits and find_tip
FitOps == {"process_double", "hub_c", "hub_n"}

\* C16 as claimed: every fusion_count is ceil(R / F) for its side of R
\* residues and factor F (8 in process_double, 4 in process_hub), and every
\* window [offset, offset + count) of every get_rot_trans call that is made
\* lies within the chain it indexes: 0 <= offset and offset + count <= the
\* chain's residue count, for the moving and for the fixed structure.
C16_Claimed ==
  calc.op \in FitOps =>
    /\ calc.factor = (IF calc.op = "process_double" THEN 8 ELSE 4)
    /\ \A i \in DOMAIN calc.counts :
         /\ calc.counts[i] * calc.factor >= calc.sides[i]
         /\ (calc.counts[i] - 1) * calc.factor < calc.sides[i]
    /\ \A k \in DOMAIN calc.calls :
         LET c == calc.calls[k]
         IN /\ 0 <= c.moving_resi_offset
            /\ c.moving_resi_offset + c.match_count <= c.moving_len
            /\ 0 <= c.fixed_resi_offset
            /\ c.fixed_resi_offset + c.match_count <= c.fixed_len

\* C17 as claimed: a find_tip call that returns has summed the residues
\* [0, n div 6) for the n terminus, [5n div 6, n) for the c terminus, and
\* divided the sum by the number of residues in that window.
C17_Claimed ==
  (calc.op = "find_tip" /\ calc.tip.err = "none") =>
    /\ calc.tip.start_idx = (IF calc.term = "n" THEN 0 ELSE (5 * calc.n) \div 6)
    /\ calc.tip.end_idx = (IF calc.term = "n" THEN calc.n \div 6 ELSE calc.n)
    /\ calc.tip.divisor = calc.tip.summed

\* C18 as claimed: find_tip raises whenever the window it selects holds no
\* residue, for either terminus and every chain length from 0 on.
C18_Claimed ==
  (calc.op = "find_tip" /\ calc.tip.summed = 0) => calc.tip.err # "none"

\* C19 as claimed: every get_rot_trans call that is made hands the
\* superimposer two atom lists of equal, non-zero length, or two lists of
\* different lengths, and then the fit fails and with it the fit sequence;
\* a fit that returns has fitted windows of the full match_count.
C19_Claimed ==
  calc.op \in FitOps =>
    \A k \in DOMAIN calc.calls :
      LET c == calc.calls[k]
      IN /\ \/ c.ma = c.fa /\ c.ma > 0
            \/ c.ma # c.fa /\ c.result # "ok" /\ calc.err # "none"
         /\ c.result = "ok" => c.ma = c.match_count /\ c.fa = c.match_count

====
